---- MODULE Spec2Model ----
(***************************************************************************)
(* Model of the weather-station node sketch proRF.ino: setup() (the boot   *)
(* sequence with its blocking LED fault loops) and loop() (one acquisition *)
(* / encode / transmit cycle per call).  One action per statement group of *)
(* the sketch; the program counter pc names the statement about to run.    *)
(*                                                                         *)
(* Floats are modelled as integers (temperature in tenths of a degree).    *)
(* packetcounter is a uint32_t in the sketch; the model keeps CounterBits  *)
(* bits of it so that the roll-over is reachable.                          *)
(***************************************************************************)
EXTENDS Integers, Naturals, Sequences, FiniteSets, TLC

VARIABLES
    pc,             \* statement of setup()/loop() about to execute
    pack,           \* the global weatherpacket
    packetcounter,  \* the global packet counter
    led,            \* level last written to LED_BUILTIN
    fault,          \* which blocking while(true) blink loop setup() is in
    blink,          \* index of the next statement inside that blink loop
    radio,          \* RH_RF95 driver mode
    radioCfg,       \* frequency / tx power handed to the radio
    raderr,         \* setup()'s local raderr
    bootlog,        \* history: initialisation calls made by setup(), in order
    trace,          \* history: collaborator calls made by the current loop() call
    errs,           \* history: which calls of the current loop() call failed, and the codes getError() gave
    compArgs,       \* history: arguments of the last airquality.setInfo call
    lastSent,       \* history: the bytes last handed to rf95.send
    sendOk,         \* history: whether the radio reported the last send as delivered
    cycles,         \* history: number of loop() calls that returned (saturates at MaxCycles)
    pulses,         \* history: times the LED was switched on since the last delay(1000)
    resets,         \* history: executions of pack.deviceinfo = 0 since the last atmosphere read
    cfglog,         \* history: radio configuration calls made by setup(), in order
    serialReady     \* what the last evaluation of !SerialUSB saw: "unpolled", "no" or "yes"

vars == <<pc, pack, packetcounter, led, fault, blink, radio, radioCfg, raderr,
          bootlog, trace, errs, compArgs, lastSent, sendOk, cycles,
          pulses, resets, cfglog, serialReady>>

----------------------------------------------------------------------------
(* Bounds of the model *)

\* number of bits of packetcounter that the model keeps (uint32_t in the sketch)
CounterBits == 2

CounterMod == 2 ^ CounterBits

\* loop() calls that the history variable cycles tells apart
MaxCycles == CounterMod + 1

----------------------------------------------------------------------------
(* Values the collaborators can deliver *)

\* (tempC in tenths of a degree, pressPa, hum) triples the BME280 can deliver
AtmosReadings ==
    { [tempC |-> 215, pressPa |-> 101300, hum |-> 45],
      [tempC |-> 180, pressPa |-> 99800,  hum |-> 60] }

\* (CO2ppm, tVOCppb) pairs the CCS811 can deliver
AirReadings == { [CO2ppm |-> 410, tVOCppb |-> 120] }

\* pulse counts the Geiger counter can deliver
RadReadings == {3}

\* values airquality.getError() can return (two of the CCS811 error bits)
FaultCodes == {1, 4}

NoPacket == [nodeID |-> 0]

NoArgs == <<>>

\* no collaborator call of the current loop() call has failed
NoErrs == [atmos |-> FALSE, alt |-> FALSE, air |-> FALSE, comp |-> FALSE, rad |-> FALSE,
           F |-> 0, G |-> 0]

----------------------------------------------------------------------------
(* Helpers *)

RECURSIVE BitOr(_, _)
\* the C operator | on unsigned integers
BitOr(a, b) ==
    IF a = 0 THEN b
    ELSE IF b = 0 THEN a
    ELSE (IF a % 2 = 1 \/ b % 2 = 1 THEN 1 ELSE 0) + 2 * BitOr(a \div 2, b \div 2)

RECURSIVE BitAnd(_, _)
\* the C operator & on unsigned integers
BitAnd(a, b) ==
    IF a = 0 \/ b = 0 THEN 0
    ELSE (IF a % 2 = 1 /\ b % 2 = 1 THEN 1 ELSE 0) + 2 * BitAnd(a \div 2, b \div 2)

\* BME::readSensor: on success stores the reading through the three pointers
BME_readSensor(p, err, r) ==
    IF err THEN p
    ELSE [p EXCEPT !.tempC = r.tempC, !.pressPa = r.pressPa, !.hum = r.hum]

\* CCS::readSensor: on success stores the reading through the two pointers
CCS_readSensor(p, err, r) ==
    IF err THEN p
    ELSE [p EXCEPT !.CO2ppm = r.CO2ppm, !.tVOCppb = r.tVOCppb]

\* Geiger::readSensor: on success stores the count through the pointer
Geiger_readSensor(p, err, r) ==
    IF err THEN p ELSE [p EXCEPT !.count = r]

----------------------------------------------------------------------------
(* State after construction of the globals *)

\* variant: the members after nodeID are left with a stale fault bit
PackInit_Garbage ==
    [nodeID |-> 1, tempC |-> 0, pressPa |-> 0, hum |-> 0, CO2ppm |-> 0,
     tVOCppb |-> 0, count |-> 0, packetnum |-> 0, deviceinfo |-> 4]

\* variant: weatherpacket pack = { }: nodeID zero-initialised as well
PackInit_NoNodeID ==
    [nodeID |-> 0, tempC |-> 0, pressPa |-> 0, hum |-> 0, CO2ppm |-> 0,
     tVOCppb |-> 0, count |-> 0, packetnum |-> 0, deviceinfo |-> 0]

\* weatherpacket pack = { 1 }: nodeID 1, every other member zero-initialised
PackInit ==
    [nodeID |-> 1, tempC |-> 0, pressPa |-> 0, hum |-> 0, CO2ppm |-> 0,
     tVOCppb |-> 0, count |-> 0, packetnum |-> 0, deviceinfo |-> 0]

Init ==
    /\ pc = "serial"
    /\ pack = PackInit
    /\ packetcounter = 0
    /\ led = "LOW"
    /\ fault = "none"
    /\ blink = 0
    /\ radio = "uninit"
    /\ radioCfg = [freq |-> 0, power |-> 0]
    /\ raderr = FALSE
    /\ bootlog = <<>>
    /\ trace = <<>>
    /\ errs = NoErrs
    /\ compArgs = NoArgs
    /\ lastSent = NoPacket
    /\ sendOk = TRUE
    /\ cycles = 0
    /\ pulses = 0
    /\ resets = 0
    /\ cfglog = <<>>
    /\ serialReady = "unpolled"

----------------------------------------------------------------------------
(* setup() *)

\* the statements of the three while(true) blink loops, in program order
BlinkBME == <<"HIGH", "delay100", "LOW", "delay1000">>

\* variant: the air-quality loop blinks three times, like the radio loop
BlinkCCS_ThreePulses ==
    <<"HIGH", "delay100", "LOW", "delay100",
      "HIGH", "delay100", "LOW", "delay100",
      "HIGH", "delay100", "LOW", "delay1000">>

BlinkCCS == <<"HIGH", "delay100", "LOW", "delay100",
              "HIGH", "delay100", "LOW", "delay1000">>

BlinkRF == <<"HIGH", "delay100", "LOW", "delay100",
             "HIGH", "delay100", "LOW", "delay100",
             "HIGH", "delay100", "LOW", "delay1000">>

BlinkPattern(f) ==
    CASE f = "bme" -> BlinkBME
      [] f = "ccs" -> BlinkCCS
      [] f = "rf"  -> BlinkRF

\* variant: setup() does not wait for the serial sink
SerialWait_NoWait ==
    /\ pc = "serial"
    /\ \E ready \in BOOLEAN :
          serialReady' = IF ready THEN "yes" ELSE "no"
    /\ pc' = "pin_setup"
    /\ UNCHANGED <<pack, packetcounter, led, fault, blink, radio, radioCfg,
                   raderr, bootlog, trace, errs, compArgs, lastSent, sendOk, cycles,
                   pulses, resets, cfglog>>

\* SerialUSB.begin(9600); while (!SerialUSB);  -- one poll of the serial sink
SerialWait ==
    /\ pc = "serial"
    /\ \E ready \in BOOLEAN :
          /\ serialReady' = IF ready THEN "yes" ELSE "no"
          /\ pc' = IF ready THEN "pin_setup" ELSE "serial"
    /\ UNCHANGED <<pack, packetcounter, led, fault, blink, radio, radioCfg,
                   raderr, bootlog, trace, errs, compArgs, lastSent, sendOk, cycles,
                   pulses, resets, cfglog>>

\* pinMode(LED_BUILTIN, OUTPUT); digitalWrite(LED_BUILTIN, LOW);
PinSetup ==
    /\ pc = "pin_setup"
    /\ led' = "LOW"
    /\ pc' = "init_bme"
    /\ UNCHANGED <<pack, packetcounter, fault, blink, radio, radioCfg,
                   raderr, bootlog, trace, errs, compArgs, lastSent, sendOk, cycles,
                   pulses, resets, cfglog, serialReady>>

\* bool erratmos = atmosphere.startSensor(); if (erratmos) { while(true) ... }
InitBME ==
    /\ pc = "init_bme"
    /\ \E erratmos \in BOOLEAN :
          /\ bootlog' = Append(bootlog, [dev |-> "atmosphere", err |-> erratmos])
          /\ IF erratmos
            THEN /\ pc' = "blink"
                 /\ fault' = "bme"
                 /\ blink' = 1
            ELSE /\ pc' = "init_ccs"
                 /\ UNCHANGED <<fault, blink>>
    /\ UNCHANGED <<pack, packetcounter, led, radio, radioCfg, raderr,
                   trace, errs, compArgs, lastSent, sendOk, cycles,
                   pulses, resets, cfglog, serialReady>>

\* variant: an air-quality initialisation failure is only logged
InitCCS_Continue ==
    /\ pc = "init_ccs"
    /\ \E errair \in BOOLEAN :
          bootlog' = Append(bootlog, [dev |-> "airquality", err |-> errair])
    /\ pc' = "init_rad"
    /\ UNCHANGED <<pack, packetcounter, led, fault, blink, radio, radioCfg, raderr,
                   trace, errs, compArgs, lastSent, sendOk, cycles,
                   pulses, resets, cfglog, serialReady>>

\* bool errair = airquality.startSensor(); if (errair) { while(true) ... }
InitCCS ==
    /\ pc = "init_ccs"
    /\ \E errair \in BOOLEAN :
          /\ bootlog' = Append(bootlog, [dev |-> "airquality", err |-> errair])
          /\ IF errair
            THEN /\ pc' = "blink"
                 /\ fault' = "ccs"
                 /\ blink' = 1
            ELSE /\ pc' = "init_rad"
                 /\ UNCHANGED <<fault, blink>>
    /\ UNCHANGED <<pack, packetcounter, led, radio, radioCfg, raderr,
                   trace, errs, compArgs, lastSent, sendOk, cycles,
                   pulses, resets, cfglog, serialReady>>

\* variant: a radiation initialisation failure blocks like the other three
InitRad_Fatal ==
    /\ pc = "init_rad"
    /\ \E e \in BOOLEAN :
          /\ raderr' = e
          /\ bootlog' = Append(bootlog, [dev |-> "radiation", err |-> e])
          /\ IF e
               THEN /\ pc' = "blink"
                    /\ fault' = "rf"
                    /\ blink' = 1
               ELSE /\ pc' = "init_rf"
                    /\ UNCHANGED <<fault, blink>>
    /\ UNCHANGED <<pack, packetcounter, led, radio, radioCfg,
                   trace, errs, compArgs, lastSent, sendOk, cycles,
                   pulses, resets, cfglog, serialReady>>

\* variant: rad.startSensor() is called again until it succeeds
InitRad_Retry ==
    /\ pc = "init_rad"
    /\ \E e \in BOOLEAN :
          /\ raderr' = e
          /\ bootlog' = Append(bootlog, [dev |-> "radiation", err |-> e])
          /\ pc' = IF e /\ Len(bootlog) < 4 THEN "init_rad" ELSE "init_rf"
    /\ UNCHANGED <<pack, packetcounter, led, fault, blink, radio, radioCfg,
                   trace, errs, compArgs, lastSent, sendOk, cycles,
                   pulses, resets, cfglog, serialReady>>

\* bool raderr = rad.startSensor(); if (raderr) { println } else { println }
InitRad ==
    /\ pc = "init_rad"
    /\ \E e \in BOOLEAN :
          /\ raderr' = e
          /\ bootlog' = Append(bootlog, [dev |-> "radiation", err |-> e])
    /\ pc' = "init_rf"
    /\ UNCHANGED <<pack, packetcounter, led, fault, blink, radio, radioCfg,
                   trace, errs, compArgs, lastSent, sendOk, cycles,
                   pulses, resets, cfglog, serialReady>>

\* variant: a radio initialisation failure is only logged
InitRF_ContinueOnFail ==
    /\ pc = "init_rf"
    /\ \E ok \in BOOLEAN :
          /\ bootlog' = Append(bootlog, [dev |-> "radio", err |-> ~ok])
          /\ radio' = IF ok THEN "idle" ELSE radio
    /\ pc' = "set_freq"
    /\ UNCHANGED <<pack, packetcounter, led, fault, blink, radioCfg, raderr,
                   trace, errs, compArgs, lastSent, sendOk, cycles,
                   pulses, resets, cfglog, serialReady>>

\* if (!rf95.init()) { while(true) ... }
InitRF ==
    /\ pc = "init_rf"
    /\ \E ok \in BOOLEAN :
          /\ bootlog' = Append(bootlog, [dev |-> "radio", err |-> ~ok])
          /\ IF ~ok
            THEN /\ pc' = "blink"
                 /\ fault' = "rf"
                 /\ blink' = 1
                 /\ UNCHANGED radio
            ELSE /\ pc' = "set_freq"
                 /\ radio' = "idle"
                 /\ UNCHANGED <<fault, blink>>
    /\ UNCHANGED <<pack, packetcounter, led, radioCfg, raderr,
                   trace, errs, compArgs, lastSent, sendOk, cycles,
                   pulses, resets, cfglog, serialReady>>

\* rf95.setFrequency(915.0);
SetFrequency ==
    /\ pc = "set_freq"
    /\ radioCfg' = [radioCfg EXCEPT !.freq = 915]
    /\ pc' = "set_tx"
    /\ cfglog' = Append(cfglog, "setFrequency")
    /\ UNCHANGED <<pack, packetcounter, led, fault, blink, radio, raderr,
                   bootlog, trace, errs, compArgs, lastSent, sendOk, cycles,
                   pulses, resets, serialReady>>

\* rf95.setTxPower(23); setup() returns and the core starts calling loop()
SetTxPower ==
    /\ pc = "set_tx"
    /\ radioCfg' = [radioCfg EXCEPT !.power = 23]
    /\ pc' = "read_atmos"
    /\ cfglog' = Append(cfglog, "setTxPower")
    /\ UNCHANGED <<pack, packetcounter, led, fault, blink, radio, raderr,
                   bootlog, trace, errs, compArgs, lastSent, sendOk, cycles,
                   pulses, resets, serialReady>>

\* variant: the blink loop ends after one pattern and setup() starts over
Blink_Exits ==
    /\ pc = "blink"
    /\ LET stmt == BlinkPattern(fault)[blink]
       IN  led' = IF stmt \in {"HIGH", "LOW"} THEN stmt ELSE led
    /\ IF blink = Len(BlinkPattern(fault))
         THEN /\ blink' = 0
              /\ fault' = "none"
              /\ pc' = "set_freq"
         ELSE /\ blink' = blink + 1
              /\ UNCHANGED <<fault, pc>>
    /\ pulses' = LET stmt == BlinkPattern(fault)[blink]
                 IN  CASE stmt = "HIGH" /\ led = "LOW" -> pulses + 1
                       [] stmt = "delay1000" -> 0
                       [] OTHER -> pulses
    /\ UNCHANGED <<pack, packetcounter, radio, radioCfg, raderr,
                   bootlog, trace, errs, compArgs, lastSent, sendOk, cycles,
                   resets, cfglog, serialReady>>

\* one statement of the while(true) blink loop that setup() is caught in
Blink ==
    /\ pc = "blink"
    /\ LET stmt == BlinkPattern(fault)[blink]
       IN  led' = IF stmt \in {"HIGH", "LOW"} THEN stmt ELSE led
    /\ blink' = IF blink = Len(BlinkPattern(fault)) THEN 1 ELSE blink + 1
    /\ pulses' = LET stmt == BlinkPattern(fault)[blink]
                 IN  CASE stmt = "HIGH" /\ led = "LOW" -> pulses + 1
                       [] stmt = "delay1000" -> 0
                       [] OTHER -> pulses
    /\ UNCHANGED <<pc, pack, packetcounter, fault, radio, radioCfg, raderr,
                   bootlog, trace, errs, compArgs, lastSent, sendOk, cycles,
                   resets, cfglog, serialReady>>

----------------------------------------------------------------------------
(* loop() *)

\* variant: loop() zeroes the atmosphere fields when the read fails
ReadAtmos_ZeroOnError ==
    /\ pc = "read_atmos"
    /\ \E errread \in BOOLEAN, r \in AtmosReadings :
          /\ pack' = IF errread
                       THEN [pack EXCEPT !.tempC = 0, !.pressPa = 0, !.hum = 0]
                       ELSE BME_readSensor(pack, errread, r)
          /\ errs' = [errs EXCEPT !.atmos = errread]
    /\ trace' = Append(trace, "readAtmos")
    /\ pc' = "read_alt"
    /\ resets' = 0
    /\ sendOk' = TRUE
    /\ UNCHANGED <<packetcounter, led, fault, blink, radio, radioCfg, raderr,
                   bootlog, compArgs, lastSent, cycles,
                   pulses, cfglog, serialReady>>

\* errread = atmosphere.readSensor(&pack.tempC, &pack.pressPa, &pack.hum);
ReadAtmos ==
    /\ pc = "read_atmos"
    /\ \E errread \in BOOLEAN, r \in AtmosReadings :
          /\ pack' = BME_readSensor(pack, errread, r)
          /\ errs' = [errs EXCEPT !.atmos = errread]
    /\ trace' = Append(trace, "readAtmos")
    /\ pc' = "read_alt"
    /\ resets' = 0
    /\ sendOk' = TRUE
    /\ UNCHANGED <<packetcounter, led, fault, blink, radio, radioCfg, raderr,
                   bootlog, compArgs, lastSent, cycles,
                   pulses, cfglog, serialReady>>

\* float alt; errread = atmosphere.readAlt(&alt);  (alt is only printed)
ReadAlt ==
    /\ pc = "read_alt"
    /\ \E errread \in BOOLEAN : errs' = [errs EXCEPT !.alt = errread]
    /\ trace' = Append(trace, "readAlt")
    /\ pc' = "read_air"
    /\ UNCHANGED <<pack, packetcounter, led, fault, blink, radio, radioCfg,
                   raderr, bootlog, compArgs, lastSent, sendOk, cycles,
                   pulses, resets, cfglog, serialReady>>

\* variant: loop() returns early when the air-quality read fails
ReadAir_AbortOnError ==
    /\ pc = "read_air"
    /\ \E errread \in BOOLEAN, r \in AirReadings, code \in FaultCodes :
          LET p == CCS_readSensor(pack, errread, r)
          IN  /\ pack' = IF errread
                           THEN [p EXCEPT !.deviceinfo = 0]
                           ELSE p
              /\ errs' = IF errread THEN NoErrs
                         ELSE [errs EXCEPT !.air = FALSE, !.F = 0]
              /\ trace' = IF errread THEN <<>> ELSE Append(trace, "readAir")
              /\ pc' = IF errread THEN "read_atmos" ELSE "set_info"
    /\ UNCHANGED <<packetcounter, led, fault, blink, radio, radioCfg, raderr,
                   bootlog, compArgs, lastSent, sendOk, cycles,
                   pulses, resets, cfglog, serialReady>>

\* errread = airquality.readSensor(&pack.CO2ppm, &pack.tVOCppb);
\* if (errread) pack.deviceinfo |= airquality.getError();
ReadAir ==
    /\ pc = "read_air"
    /\ \E errread \in BOOLEAN, r \in AirReadings, code \in FaultCodes :
          LET p == CCS_readSensor(pack, errread, r)
          IN  /\ pack' = IF errread
                           THEN [p EXCEPT !.deviceinfo = BitOr(@, code)]
                           ELSE p
              /\ errs' = [errs EXCEPT !.air = errread,
                                      !.F = IF errread THEN code ELSE 0]
    /\ trace' = Append(trace, "readAir")
    /\ pc' = "set_info"
    /\ UNCHANGED <<packetcounter, led, fault, blink, radio, radioCfg, raderr,
                   bootlog, compArgs, lastSent, sendOk, cycles,
                   pulses, resets, cfglog, serialReady>>

\* variant: the compensation call is made only after a successful air-quality read
SetInfo_SkippedOnAirError ==
    /\ pc = "set_info"
    /\ IF errs.air
         THEN UNCHANGED <<compArgs, pack, errs, trace>>
         ELSE /\ compArgs' = <<pack.hum, pack.tempC>>
              /\ \E errset \in BOOLEAN, code \in FaultCodes :
                    /\ pack' = IF errset
                                 THEN [pack EXCEPT !.deviceinfo = BitOr(@, code)]
                                 ELSE pack
                    /\ errs' = [errs EXCEPT !.comp = errset,
                                            !.G = IF errset THEN code ELSE 0]
              /\ trace' = Append(trace, "setInfo")
    /\ pc' = "read_rad"
    /\ UNCHANGED <<packetcounter, led, fault, blink, radio, radioCfg, raderr,
                   bootlog, lastSent, sendOk, cycles,
                   pulses, resets, cfglog, serialReady>>

\* variant: the compensation fault code is assigned, not OR-ed in
SetInfo_Overwrite ==
    /\ pc = "set_info"
    /\ compArgs' = <<pack.hum, pack.tempC>>
    /\ \E errset \in BOOLEAN, code \in FaultCodes :
          /\ pack' = IF errset
                       THEN [pack EXCEPT !.deviceinfo = code]
                       ELSE pack
          /\ errs' = [errs EXCEPT !.comp = errset,
                                  !.G = IF errset THEN code ELSE 0]
    /\ trace' = Append(trace, "setInfo")
    /\ pc' = "read_rad"
    /\ UNCHANGED <<packetcounter, led, fault, blink, radio, radioCfg, raderr,
                   bootlog, lastSent, sendOk, cycles,
                   pulses, resets, cfglog, serialReady>>

\* bool errset = airquality.setInfo(pack.hum, pack.tempC);
\* if (errset) pack.deviceinfo |= airquality.getError();
SetInfo ==
    /\ pc = "set_info"
    /\ compArgs' = <<pack.hum, pack.tempC>>
    /\ \E errset \in BOOLEAN, code \in FaultCodes :
          /\ pack' = IF errset
                       THEN [pack EXCEPT !.deviceinfo = BitOr(@, code)]
                       ELSE pack
          /\ errs' = [errs EXCEPT !.comp = errset,
                                  !.G = IF errset THEN code ELSE 0]
    /\ trace' = Append(trace, "setInfo")
    /\ pc' = "read_rad"
    /\ UNCHANGED <<packetcounter, led, fault, blink, radio, radioCfg, raderr,
                   bootlog, lastSent, sendOk, cycles,
                   pulses, resets, cfglog, serialReady>>

\* variant: a failed radiation read sets an error bit of its own
ReadRad_SetsErrorBit ==
    /\ pc = "read_rad"
    /\ \E errread \in BOOLEAN, r \in RadReadings :
          /\ pack' = IF errread
                       THEN [pack EXCEPT !.deviceinfo = BitOr(@, 2)]
                       ELSE Geiger_readSensor(pack, errread, r)
          /\ errs' = [errs EXCEPT !.rad = errread]
    /\ trace' = Append(trace, "readRad")
    /\ pc' = "stamp"
    /\ UNCHANGED <<packetcounter, led, fault, blink, radio, radioCfg, raderr,
                   bootlog, compArgs, lastSent, sendOk, cycles,
                   pulses, resets, cfglog, serialReady>>

\* errread = rad.readSensor(&pack.count);
ReadRad ==
    /\ pc = "read_rad"
    /\ \E errread \in BOOLEAN, r \in RadReadings :
          /\ pack' = Geiger_readSensor(pack, errread, r)
          /\ errs' = [errs EXCEPT !.rad = errread]
    /\ trace' = Append(trace, "readRad")
    /\ pc' = "stamp"
    /\ UNCHANGED <<packetcounter, led, fault, blink, radio, radioCfg, raderr,
                   bootlog, compArgs, lastSent, sendOk, cycles,
                   pulses, resets, cfglog, serialReady>>

\* variant: the counter stops at its largest value instead of rolling over
Stamp_Saturate ==
    /\ pc = "stamp"
    /\ pack' = [pack EXCEPT !.packetnum = packetcounter]
    /\ packetcounter' = IF packetcounter = CounterMod - 1
                           THEN packetcounter
                           ELSE packetcounter + 1
    /\ pc' = "send"
    /\ trace' = Append(trace, "stamp")
    /\ UNCHANGED <<led, fault, blink, radio, radioCfg, raderr, bootlog,
                   errs, compArgs, lastSent, sendOk, cycles,
                   pulses, resets, cfglog, serialReady>>

\* variant: pack.packetnum = ++packetcounter;
Stamp_PreIncrement ==
    /\ pc = "stamp"
    /\ pack' = [pack EXCEPT !.packetnum = (packetcounter + 1) % CounterMod]
    /\ packetcounter' = (packetcounter + 1) % CounterMod
    /\ pc' = "send"
    /\ trace' = Append(trace, "stamp")
    /\ UNCHANGED <<led, fault, blink, radio, radioCfg, raderr, bootlog,
                   errs, compArgs, lastSent, sendOk, cycles,
                   pulses, resets, cfglog, serialReady>>

\* pack.packetnum = packetcounter++;  (followed by the SerialUSB summary line)
Stamp ==
    /\ pc = "stamp"
    /\ pack' = [pack EXCEPT !.packetnum = packetcounter]
    /\ packetcounter' = (packetcounter + 1) % CounterMod
    /\ pc' = "send"
    /\ trace' = Append(trace, "stamp")
    /\ UNCHANGED <<led, fault, blink, radio, radioCfg, raderr, bootlog,
                   errs, compArgs, lastSent, sendOk, cycles,
                   pulses, resets, cfglog, serialReady>>

\* variant: a send the radio reports as failed is attempted once more
Send_RetryOnFailure ==
    /\ pc = "send"
    /\ lastSent' = pack
    /\ radio' = "tx"
    /\ trace' = Append(trace, "send")
    /\ \E delivered \in BOOLEAN :
          /\ sendOk' = delivered
          /\ pc' = IF ~delivered /\ Len(trace) < 8 THEN "send" ELSE "wait_sent"
    /\ UNCHANGED <<pack, packetcounter, led, fault, blink, radioCfg, raderr,
                   bootlog, errs, compArgs, cycles,
                   pulses, resets, cfglog, serialReady>>

\* rf95.send(reinterpret_cast<uint8_t*>(&pack), sizeof(pack));
Send ==
    /\ pc = "send"
    /\ lastSent' = pack
    /\ radio' = "tx"
    /\ \E delivered \in BOOLEAN : sendOk' = delivered
    /\ trace' = Append(trace, "send")
    /\ pc' = "wait_sent"
    /\ UNCHANGED <<pack, packetcounter, led, fault, blink, radioCfg, raderr,
                   bootlog, errs, compArgs, cycles,
                   pulses, resets, cfglog, serialReady>>

\* rf95.waitPacketSent();
WaitPacketSent ==
    /\ pc = "wait_sent"
    /\ radio' = "idle"
    /\ trace' = Append(trace, "waitPacketSent")
    /\ pc' = "sleep"
    /\ UNCHANGED <<pack, packetcounter, led, fault, blink, radioCfg, raderr,
                   bootlog, errs, compArgs, lastSent, sendOk, cycles,
                   pulses, resets, cfglog, serialReady>>

\* variant: the idle delay after rf95.sleep() is left out
RadioSleep_NoDelay ==
    /\ pc = "sleep"
    /\ radio' = "sleep"
    /\ trace' = Append(trace, "sleep")
    /\ pc' = "clear"
    /\ UNCHANGED <<pack, packetcounter, led, fault, blink, radioCfg, raderr,
                   bootlog, errs, compArgs, lastSent, sendOk, cycles,
                   pulses, resets, cfglog, serialReady>>

\* rf95.sleep();
RadioSleep ==
    /\ pc = "sleep"
    /\ radio' = "sleep"
    /\ trace' = Append(trace, "sleep")
    /\ pc' = "delay"
    /\ UNCHANGED <<pack, packetcounter, led, fault, blink, radioCfg, raderr,
                   bootlog, errs, compArgs, lastSent, sendOk, cycles,
                   pulses, resets, cfglog, serialReady>>

\* delay(packet_delay * 1000);
Delay ==
    /\ pc = "delay"
    /\ trace' = Append(trace, "delay")
    /\ pc' = "clear"
    /\ UNCHANGED <<pack, packetcounter, led, fault, blink, radio, radioCfg,
                   raderr, bootlog, errs, compArgs, lastSent, sendOk, cycles,
                   pulses, resets, cfglog, serialReady>>

\* variant: loop() returns without clearing pack.deviceinfo
Clear_NoReset ==
    /\ pc = "clear"
    /\ pc' = "read_atmos"
    /\ cycles' = IF cycles < MaxCycles THEN cycles + 1 ELSE cycles
    /\ trace' = <<>>
    /\ errs' = NoErrs
    /\ compArgs' = NoArgs
    /\ UNCHANGED <<pack, packetcounter, led, fault, blink, radio, radioCfg, raderr,
                   bootlog, lastSent, sendOk,
                   pulses, resets, cfglog, serialReady>>

\* variant: deviceinfo is cleared only when the send was reported delivered
Clear_OnlyAfterDelivery ==
    /\ pc = "clear"
    /\ pack' = IF sendOk THEN [pack EXCEPT !.deviceinfo = 0] ELSE pack
    /\ pc' = "read_atmos"
    /\ cycles' = IF cycles < MaxCycles THEN cycles + 1 ELSE cycles
    /\ trace' = <<>>
    /\ errs' = NoErrs
    /\ compArgs' = NoArgs
    /\ resets' = IF sendOk THEN resets + 1 ELSE resets
    /\ UNCHANGED <<packetcounter, led, fault, blink, radio, radioCfg, raderr,
                   bootlog, lastSent, sendOk,
                   pulses, cfglog, serialReady>>

\* pack.deviceinfo = 0; loop() returns and is called again
Clear ==
    /\ pc = "clear"
    /\ pack' = [pack EXCEPT !.deviceinfo = 0]
    /\ pc' = "read_atmos"
    /\ cycles' = IF cycles < MaxCycles THEN cycles + 1 ELSE cycles
    /\ trace' = <<>>
    /\ errs' = NoErrs
    /\ compArgs' = NoArgs
    /\ resets' = resets + 1
    /\ UNCHANGED <<packetcounter, led, fault, blink, radio, radioCfg, raderr,
                   bootlog, lastSent, sendOk,
                   pulses, cfglog, serialReady>>

----------------------------------------------------------------------------

Setup ==
    \/ SerialWait
    \/ PinSetup
    \/ InitBME
    \/ InitCCS
    \/ InitRad
    \/ InitRF
    \/ SetFrequency
    \/ SetTxPower
    \/ Blink

Loop ==
    \/ ReadAtmos
    \/ ReadAlt
    \/ ReadAir
    \/ SetInfo
    \/ ReadRad
    \/ Stamp
    \/ Send
    \/ WaitPacketSent
    \/ RadioSleep
    \/ Delay
    \/ Clear

Next == Setup \/ Loop

Spec == Init /\ [][Next]_vars

\* every statement of the single thread returns: the blocking calls terminate
FairSpec == Spec /\ WF_vars(Loop) /\ WF_vars(Setup)

TypeOK ==
    /\ pc \in {"serial", "pin_setup", "init_bme", "init_ccs", "init_rad",
               "init_rf", "set_freq", "set_tx", "blink", "read_atmos",
               "read_alt", "read_air", "set_info", "read_rad", "stamp",
               "send", "wait_sent", "sleep", "delay", "clear"}
    /\ packetcounter \in 0 .. CounterMod - 1
    /\ led \in {"LOW", "HIGH"}
    /\ fault \in {"none", "bme", "ccs", "rf"}
    /\ radio \in {"uninit", "idle", "tx", "sleep"}
    /\ raderr \in BOOLEAN
    /\ cycles \in 0 .. MaxCycles

----------------------------------------------------------------------------
(* Properties *)

LoopPCs == {"read_atmos", "read_alt", "read_air", "set_info", "read_rad",
            "stamp", "send", "wait_sent", "sleep", "delay", "clear"}

InitOrder == <<"atmosphere", "airquality", "radiation", "radio">>

\* the collaborators whose initialisation has been called so far, in call order
InitCalls == [i \in 1 .. Len(bootlog) |-> bootlog[i].dev]

\* some initialisation of collaborator d has failed
InitFailed(d) == \E i \in 1 .. Len(bootlog) : bootlog[i].dev = d /\ bootlog[i].err

\* the packet of the previous cycle: before the first send, the initial record
PrevPacket == IF lastSent = NoPacket THEN PackInit ELSE lastSent

\* number of rf95.send calls made by the current loop() call
SendsInCycle == Cardinality({i \in 1 .. Len(trace) : trace[i] = "send"})

\* union of the fault codes getError() gave for this cycle's failed calls
CycleFaults ==
    BitOr(IF errs.air THEN errs.F ELSE 0, IF errs.comp THEN errs.G ELSE 0)

\* every read and the compensation call of the current cycle has failed
AllFailed == errs.atmos /\ errs.alt /\ errs.air /\ errs.comp /\ errs.rad

\* C1 as amended: the packetnum handed to the radio in cycle n is n modulo
\* 2^CounterBits (0 in the first cycle, previous + 1 modulo 2^CounterBits
\* afterwards), whichever reads or calls failed.
C1_PacketnumCountsCyclesModulo ==
    /\ (pc = "wait_sent" /\ cycles < MaxCycles
           => lastSent.packetnum = cycles % CounterMod)
    /\ (pc = "send" /\ lastSent = NoPacket => pack.packetnum = 0)
    /\ (pc = "send" /\ lastSent # NoPacket
           => pack.packetnum = (lastSent.packetnum + 1) % CounterMod)

C1_Witness ==
    /\ pc = "wait_sent"
    /\ cycles = CounterMod
    /\ lastSent.packetnum = 0
    /\ AllFailed

\* C1 as stated: the packetnum sent in cycle n equals n, the number of cycles
\* completed before it.
C1_PacketnumEqualsCycles ==
    pc = "wait_sent" /\ cycles < MaxCycles => lastSent.packetnum = cycles

\* C2: whenever the atmosphere read is about to be made (the first
\* collaborator query of a cycle), deviceinfo is 0.
C2_DeviceinfoZeroAtCycleStart ==
    pc = "read_atmos" => pack.deviceinfo = 0

C2_Witness ==
    /\ pc = "read_atmos"
    /\ lastSent # NoPacket
    /\ lastSent.deviceinfo = 5

\* C3: the deviceinfo handed to the radio contains every bit of the code F
\* reported for a failed air-quality read, and every bit of F|G when the
\* compensation call of the same cycle failed too with code G.
C3_FaultBitsAccumulate ==
    pc = "wait_sent" =>
        /\ (errs.air => BitAnd(lastSent.deviceinfo, errs.F) = errs.F)
        /\ (errs.air /\ errs.comp =>
               BitAnd(lastSent.deviceinfo, BitOr(errs.F, errs.G)) = BitOr(errs.F, errs.G))

C3_Witness ==
    /\ pc = "wait_sent"
    /\ errs.air /\ errs.F = 4
    /\ errs.comp /\ errs.G = 1
    /\ lastSent.deviceinfo = 5

\* C4: the deviceinfo handed to the radio is exactly the union of the fault
\* codes reported for this cycle's failed air-quality read and compensation
\* call (0 if neither failed), whatever the previous cycle's packet carried.
C4_DeviceinfoIsThisCyclesUnion ==
    /\ (pc = "send" => pack.deviceinfo = CycleFaults)
    /\ (pc = "wait_sent" => lastSent.deviceinfo = CycleFaults)

C4_Witness ==
    /\ pc = "send"
    /\ lastSent # NoPacket
    /\ lastSent.deviceinfo = 5
    /\ errs.air /\ errs.F = 1 /\ ~errs.comp
    /\ pack.deviceinfo = 1

\* C5: the packet handed to the radio carries, for every read that failed in
\* this cycle, the field values of the previous cycle's packet (of the
\* initial record in the first cycle).
C5_FailedReadKeepsStale ==
    [][pc = "send" =>
          /\ (errs.atmos => /\ lastSent'.tempC = PrevPacket.tempC
                            /\ lastSent'.pressPa = PrevPacket.pressPa
                            /\ lastSent'.hum = PrevPacket.hum)
          /\ (errs.air => /\ lastSent'.CO2ppm = PrevPacket.CO2ppm
                          /\ lastSent'.tVOCppb = PrevPacket.tVOCppb)
          /\ (errs.rad => lastSent'.count = PrevPacket.count)]_vars

C5_Witness ==
    /\ pc = "wait_sent"
    /\ cycles > 0
    /\ AllFailed
    /\ lastSent.tempC = 180 /\ lastSent.CO2ppm = 410 /\ lastSent.count = 3

\* C6: once the initialisation of the atmosphere, air-quality or radio
\* collaborator has failed, the program is in the blink loop of that
\* collaborator, no loop() statement has run and nothing was handed to the radio.
C6_FatalInitFailureBlocks ==
    /\ (InitFailed("atmosphere") => fault = "bme")
    /\ (InitFailed("airquality") => fault = "ccs")
    /\ (InitFailed("radio") => fault = "rf")
    /\ (fault # "none" =>
           /\ pc = "blink"
           /\ lastSent = NoPacket
           /\ trace = <<>>
           /\ cycles = 0
           /\ pack = PackInit
           /\ packetcounter = 0)

C6_Witness ==
    /\ InitFailed("radio")
    /\ fault = "rf"
    /\ blink = 12
    /\ led = "LOW"

\* C7: a failed radiation initialisation is followed by the radio
\* initialisation; if that succeeds, boot completes and every cycle goes on
\* to hand a packet to the radio.
C7_RadiationFailureAdvisory ==
    /\ [](InitFailed("radiation") /\ Len(bootlog) = 3
             => pc = "init_rf" /\ fault = "none")
    /\ [](InitFailed("radiation") /\ Len(bootlog) = 4 /\ ~bootlog[4].err
             => pc \in LoopPCs \cup {"set_freq", "set_tx"} /\ fault = "none"
                /\ radio # "uninit")
    /\ [](InitFailed("radiation") /\ pc = "read_atmos" => <>(pc = "wait_sent"))

C7_Witness ==
    /\ InitFailed("radiation")
    /\ raderr
    /\ pc = "wait_sent"
    /\ cycles = 2
    /\ lastSent.packetnum = 2
    /\ lastSent.count = 3

\* C8: after boot, loop() returns only from its last statement, having
\* handed exactly one packet to the radio, whichever reads or calls failed;
\* and from every statement of loop() a packet is eventually handed to the
\* radio, so packets are sent again and again.
C8_EveryCycleSendsOnce ==
    /\ [][(pc \in LoopPCs /\ pc' = "read_atmos")
             => (pc = "clear" /\ SendsInCycle = 1)]_vars
    /\ [](pc \in LoopPCs => <>(pc = "wait_sent"))

C8_Witness ==
    /\ pc = "clear"
    /\ AllFailed
    /\ ~sendOk
    /\ cycles = 1
    /\ SendsInCycle = 1

\* C9 as amended: the initialisation calls made by setup() are always a
\* prefix of atmosphere, air-quality, radiation, radio (each at most once, in
\* that order), and a setup() that returns has made all four.
C9_InitOnceInOrder ==
    /\ Len(bootlog) <= Len(InitOrder)
    /\ \A i \in 1 .. Len(bootlog) : i <= Len(InitOrder) => InitCalls[i] = InitOrder[i]
    /\ (pc \in LoopPCs \cup {"set_freq", "set_tx"} => InitCalls = InitOrder)

C9_Witness ==
    /\ pc = "read_atmos"
    /\ InitCalls = InitOrder
    /\ raderr

\* C9 as stated: every execution of the boot phase, also one that ends in a
\* blink loop, has made all four initialisation calls.
C9_AllFourInEveryBoot ==
    pc \in LoopPCs \cup {"blink"} => InitCalls = InitOrder

\* C10: a blink loop is never left nor exchanged for another one, and while
\* loop() runs no blink loop is entered and the LED stays off.
C10_FaultTerminalAndBootOnly ==
    [][/\ (fault # "none" => pc = "blink" /\ pc' = "blink" /\ fault' = fault)
       /\ (pc = "blink" => fault # "none")
       /\ (pc \in LoopPCs =>
              /\ fault = "none" /\ led = "LOW"
              /\ pc' \in LoopPCs /\ fault' = "none" /\ led' = "LOW")]_vars

C10_Witness ==
    /\ pc = "blink"
    /\ fault = "ccs"
    /\ blink = 6
    /\ led = "HIGH"

\* pulses per pattern that identify the failing subsystem
ExpectedPulses(f) ==
    CASE f = "bme" -> 1
      [] f = "ccs" -> 2
      [] f = "rf"  -> 3

\* C11: in a blink loop, whenever the long off-period delay(1000) is about
\* to run the LED is off and has been switched on exactly 1 (atmosphere),
\* 2 (air quality) or 3 (radio) times since the previous long off-period.
C11_PulseCountIdentifiesSubsystem ==
    pc = "blink" =>
        /\ pulses <= ExpectedPulses(fault)
        /\ (BlinkPattern(fault)[blink] = "delay1000"
               => pulses = ExpectedPulses(fault) /\ led = "LOW")
        /\ (BlinkPattern(fault)[blink] = "delay100" /\ led = "LOW"
               => pulses < ExpectedPulses(fault))

C11_Witness ==
    /\ pc = "blink"
    /\ fault = "ccs"
    /\ BlinkPattern(fault)[blink] = "delay1000"
    /\ pulses = 2

\* the reads, the compensation call and the send of one loop() call
CycleCalls == {"readAtmos", "readAlt", "readAir", "setInfo", "readRad", "send"}

\* number of times the current loop() call has made call op
CallsInCycle(op) == Cardinality({i \in 1 .. Len(trace) : trace[i] = op})

\* C12: a loop() call makes each read, the compensation call and the send
\* at most once, and when it reaches its last statement it has made each of
\* them exactly once, whether they succeeded or failed.
C12_NoRetries ==
    \A op \in CycleCalls :
        /\ CallsInCycle(op) <= 1
        /\ (pc = "clear" => CallsInCycle(op) = 1)

C12_Witness ==
    /\ pc = "clear"
    /\ cycles = 2
    /\ AllFailed
    /\ ~sendOk
    /\ \A op \in CycleCalls : CallsInCycle(op) = 1

\* C13: nodeID is 1 in the record in every state and in every packet
\* handed to the radio.
C13_NodeIDConstant ==
    /\ pack.nodeID = 1
    /\ (lastSent # NoPacket => lastSent.nodeID = 1)
    /\ (pc \notin {"serial", "pin_setup", "init_bme", "init_ccs", "init_rad",
                   "init_rf", "set_freq", "set_tx", "blink", "read_atmos",
                   "read_alt", "read_air", "set_info", "read_rad", "stamp", "send"}
           => lastSent # NoPacket)

C13_Witness ==
    /\ pc = "wait_sent"
    /\ cycles = MaxCycles
    /\ AllFailed
    /\ pack.nodeID = 1
    /\ lastSent.nodeID = 1

\* C14: stamping in cycle n writes n modulo 2^CounterBits into packetnum
\* (0 again in the cycle after 2^CounterBits - 1), leaves every other field
\* of the record as it was, advances the counter modulo 2^CounterBits and
\* goes on to the send.
C14_PacketnumWraps ==
    [][(pc = "stamp" /\ cycles < MaxCycles) =>
          /\ pack' = [pack EXCEPT !.packetnum = cycles % CounterMod]
          /\ packetcounter' = (cycles + 1) % CounterMod
          /\ pc' = "send"]_vars

C14_Witness ==
    /\ pc = "send"
    /\ cycles = CounterMod
    /\ lastSent # NoPacket
    /\ lastSent.packetnum = CounterMod - 1
    /\ pack.packetnum = 0
    /\ packetcounter = 1
    /\ pack.tempC = 180 /\ pack.CO2ppm = 410 /\ pack.count = 3

\* the statements of loop() that the history variable trace records, in
\* program order
CycleOrder == <<"readAtmos", "readAlt", "readAir", "setInfo", "readRad",
                "stamp", "send", "waitPacketSent", "sleep", "delay">>

\* number of CycleOrder statements that precede statement p of loop()
StepsBefore(p) ==
    CASE p = "read_atmos" -> 0
      [] p = "read_alt"   -> 1
      [] p = "read_air"   -> 2
      [] p = "set_info"   -> 3
      [] p = "read_rad"   -> 4
      [] p = "stamp"      -> 5
      [] p = "send"       -> 6
      [] p = "wait_sent"  -> 7
      [] p = "sleep"      -> 8
      [] p = "delay"      -> 9
      [] p = "clear"      -> 10

\* C15: the acquisition calls of a cycle are made in the order atmosphere
\* read, altitude read, air-quality read, compensation call, radiation read;
\* the compensation call is made whether or not the air-quality read
\* failed, and its arguments are the hum and tempC the record holds after
\* this cycle's atmosphere read, which are the ones sent.
C15_AcquisitionOrderAndCompensation ==
    /\ \A i \in 1 .. Len(trace) :
          i <= 5 => trace[i] = SubSeq(CycleOrder, 1, 5)[i]
    /\ (pc \in {"read_rad", "stamp", "send", "wait_sent", "sleep", "delay", "clear"}
           => /\ Len(trace) >= 4
              /\ trace[4] = "setInfo"
              /\ compArgs = <<pack.hum, pack.tempC>>)
    /\ (pc \in {"read_atmos", "read_alt", "read_air", "set_info"} /\ fault = "none"
           => compArgs = NoArgs)
    /\ (pc = "wait_sent" => compArgs = <<lastSent.hum, lastSent.tempC>>)

C15_Witness ==
    /\ pc = "send"
    /\ errs.air /\ ~errs.atmos
    /\ lastSent # NoPacket
    /\ lastSent.tempC = 215 /\ lastSent.hum = 45
    /\ pack.tempC = 180 /\ pack.hum = 60
    /\ compArgs = <<60, 180>>

\* C16: at every statement of loop() exactly the statements before it in
\* program order have run (five acquisition calls, stamp, send, wait for
\* confirmation, radio sleep, delay); the record is not touched between the
\* send and the end of the delay; the radio is put to sleep only by the
\* statement after the confirmation; and loop() returns, with deviceinfo
\* cleared, only after the delay.
C16_TailOrder ==
    [][/\ (pc \in LoopPCs => trace = SubSeq(CycleOrder, 1, StepsBefore(pc)))
       /\ (pc \in {"send", "wait_sent", "sleep", "delay"} => pack' = pack)
       /\ (pc = "stamp" => pack'.deviceinfo = pack.deviceinfo)
       /\ (radio' = "sleep" /\ radio # "sleep"
              => pc = "sleep" /\ trace[Len(trace)] = "waitPacketSent")
       /\ (radio' = "tx" => pc = "send" /\ trace[Len(trace)] = "stamp")
       /\ ((pc \in LoopPCs /\ pc' = "read_atmos")
              => trace = CycleOrder /\ pack'.deviceinfo = 0)]_vars

C16_Witness ==
    /\ pc = "clear"
    /\ trace = CycleOrder
    /\ radio = "sleep"
    /\ pack.deviceinfo = 5
    /\ lastSent = pack

\* C17: pack.deviceinfo = 0 is executed exactly once per loop() call, by
\* its last statement, after that call's send whether or not the send was
\* reported delivered, and before the next call's atmosphere read.
C17_ResetOncePerCycle ==
    [][/\ (pc \in LoopPCs \ {"read_atmos"} => resets = 0)
       /\ (pc = "read_atmos" => resets = IF lastSent = NoPacket THEN 0 ELSE 1)
       /\ (resets' # resets /\ resets' # 0
              => /\ pc = "clear"
                 /\ CallsInCycle("send") = 1
                 /\ pack'.deviceinfo = 0
                 /\ pc' = "read_atmos")
       /\ ((pc \in LoopPCs /\ pc' = "read_atmos")
              => resets' = 1 /\ pack'.deviceinfo = 0)]_vars

C17_Witness ==
    /\ pc = "read_atmos"
    /\ ~sendOk
    /\ resets = 1
    /\ lastSent # NoPacket
    /\ lastSent.deviceinfo = 5
    /\ pack.deviceinfo = 0

\* C18: the atmosphere, altitude and radiation reads leave deviceinfo as it
\* was, whether they fail or not; before the final reset, deviceinfo changes
\* only in a failing air-quality read or a failing compensation call; and
\* after the altitude read, failed or not, the air-quality read is next and
\* the cycle runs all its statements.
C18_OnlyAirQualityFaultsSetBits ==
    [][/\ (pc \in LoopPCs \ {"read_air", "set_info", "clear"}
              => pack'.deviceinfo = pack.deviceinfo)
       /\ (pc = "read_air" /\ ~errs'.air => pack'.deviceinfo = pack.deviceinfo)
       /\ (pc = "set_info" /\ ~errs'.comp => pack'.deviceinfo = pack.deviceinfo)
       /\ (pc = "read_alt" => pc' = "read_air" /\ pack' = pack)
       /\ (pc = "clear" /\ errs.alt => trace = CycleOrder)]_vars

C18_Witness ==
    /\ pc = "wait_sent"
    /\ cycles > 0
    /\ errs.atmos /\ errs.alt /\ errs.rad
    /\ ~errs.air /\ ~errs.comp
    /\ lastSent.deviceinfo = 0
    /\ trace[Len(trace)] = "send"

\* the radio configuration calls of setup(), in program order
ConfigOrder == <<"setFrequency", "setTxPower">>

\* C19: after a failed atmosphere initialisation no other initialisation
\* and no radio configuration call is made; after a failed air-quality
\* initialisation neither radiation nor radio is initialised nor the radio
\* configured; after a failed radio initialisation the radio is not
\* configured. The radio is configured only after a successful radio
\* initialisation, each call once, and completely before loop() first runs.
C19_BootShortCircuits ==
    /\ (InitFailed("atmosphere")
           => InitCalls = <<"atmosphere">> /\ cfglog = <<>>)
    /\ (InitFailed("airquality")
           => InitCalls = <<"atmosphere", "airquality">> /\ cfglog = <<>>)
    /\ (InitFailed("radio")
           => cfglog = <<>> /\ radioCfg = [freq |-> 0, power |-> 0])
    /\ (cfglog # <<>>
           => Len(bootlog) = 4 /\ bootlog[4].dev = "radio" /\ ~bootlog[4].err)
    /\ Len(cfglog) <= Len(ConfigOrder)
    /\ (\A i \in 1 .. Len(cfglog) : i <= Len(ConfigOrder) => cfglog[i] = ConfigOrder[i])
    /\ (pc \in LoopPCs
           => cfglog = ConfigOrder /\ radioCfg = [freq |-> 915, power |-> 23])

C19_Witness ==
    /\ InitFailed("airquality")
    /\ pc = "blink"
    /\ blink = 8
    /\ InitCalls = <<"atmosphere", "airquality">>
    /\ cfglog = <<>>
    /\ radio = "uninit"

\* C20: as long as no poll of the serial sink has found it ready, setup()
\* is still at its while (!SerialUSB): no collaborator has been initialised,
\* no blink loop entered, the radio not configured and nothing sent; every
\* later statement runs only after a poll found the sink ready.
C20_BootGatedOnSerial ==
    /\ (serialReady # "yes"
           => /\ pc = "serial"
              /\ bootlog = <<>>
              /\ cfglog = <<>>
              /\ fault = "none"
              /\ led = "LOW"
              /\ radio = "uninit"
              /\ lastSent = NoPacket
              /\ pack = PackInit)
    /\ (pc # "serial" => serialReady = "yes")

C20_Witness ==
    /\ serialReady = "no"
    /\ pc = "serial"
    /\ bootlog = <<>>
    /\ lastSent = NoPacket

====
